---- MODULE Spec2Model ----
(***************************************************************************)
(* A model of rust-vm: the segmented Memory (src/src/memory.rs), the       *)
(* register file, the executor exec_ix and the two schedulers              *)
(* (src/src/vm.rs).                                                        *)
(*                                                                         *)
(* Thread 0 is the caller (the thread that runs exec_seq, exec_concurrent  *)
(* or the Memory operations); threads 1.. are the tasks spawned by         *)
(* parse_and_exec_ixs_concurrent.  A step is one lock acquisition together *)
(* with the reads made under it, or one write critical section (acquire,   *)
(* write, release), which nothing else can observe half-way.               *)
(***************************************************************************)
EXTENDS Integers, Sequences, FiniteSets, TLC

VARIABLES
    memory,      \* Memory: the three segments, each a sparse map address -> non-zero byte
    registers,   \* RegisterArray: [u16; 10]
    mem_lock,    \* RwLock<Memory>: who holds a read guard, and the poison flag
    reg_lock,    \* RwLock<RegisterArray>
    loc,         \* where each thread is in its code
    inx,         \* each thread's decoded Ix (with the pc it was decoded at)
    tmp,         \* each thread's locals inside exec_ix: addr, reg, reg_val, data
    iter,        \* each task's loop counter (for _ in 0..10)
    ret,         \* each thread's return value, once it has one
    ix_pointer,  \* scan phase: the cursor
    ixs_count,   \* scan phase: the count
    threads,     \* the Vec<JoinHandle>: the tasks spawned so far, in order
    joined,      \* how many handles the join loop has consumed
    snap,        \* history: registers and memory as they were when the thread entered
                 \* exec_ix, and whether it is still inside (open)
    executed,    \* history: the addresses of the instructions thread 0 completed, in order
    prog,        \* history: what the driver set up (base address, instruction list,
                 \* registers, data segment) and where its instructions start
    mem_call,    \* the last Memory operation called directly, with its result
    loaded_idx,  \* the driver's cursor: where the next load_ix writes
    race         \* history: whether a task has decoded an instruction another task was
                 \* executing (twice), and whether PC has been moved past an instruction
                 \* nobody had decoded (never)

vars == <<memory, registers, mem_lock, reg_lock, loc, inx, tmp, iter, ret,
          ix_pointer, ixs_count, threads, joined, snap, executed, prog, mem_call,
          loaded_idx, race>>

----------------------------------------------------------------------------
(* Program constants *)

CODE_SEG_SIZE == 16384
DATA_SEG_SIZE == 8192
STACK_SEG_SIZE == 40960

IX_SIZE_OFFSET == 1
IX_META_SIZE == 2
IX_DATA_OFFSET == 2

\* for _ in 0..(ixs_count / 10): the instructions counted for one task
BATCH == 10

\* (a task loop that runs one turn too many: 0..=10)
TASK_ITERS_OneMore == 10 + 1

\* for _ in 0..10: the turns of a task's loop
TASK_ITERS == 10

\* type RegisterArray = [u16; 10]
REG_COUNT == 10

\* enum Register, by discriminant
REG_A == 0
REG_B == 1
REG_PC == 9
REG_DP == 10

\* enum IxType, by discriminant
NOP == 0
MOV == 1
LDM == 2
STM == 3
ADD == 4

U16 == 65536
U8 == 256

----------------------------------------------------------------------------
(* Results: Ok(v), Err(String) by kind, or a panic that unwinds the thread *)

Ok(v) == [res |-> "Ok", val |-> v]
Err(e) == [res |-> "Err", err |-> e]
Panic == [res |-> "Panic"]

IsOk(r) == r.res = "Ok"

----------------------------------------------------------------------------
(* Memory (memory.rs).  A segment is zero-filled; only its non-zero bytes   *)
(* are stored.                                                              *)

SegByte(seg, a) == IF a \in DOMAIN seg THEN seg[a] ELSE 0

SegPut(seg, a, b) ==
    IF b = 0
    THEN [x \in (DOMAIN seg) \ {a} |-> seg[x]]
    ELSE [x \in (DOMAIN seg) \cup {a} |-> IF x = a THEN b ELSE seg[x]]

EmptySeg == [x \in {} |-> 0]

\* Memory::new
MemoryNew == [code_seg |-> EmptySeg, data_seg |-> EmptySeg, stack_seg |-> EmptySeg]

check_illegal_mem_access(addr, mem_size) ==
    IF addr > mem_size THEN Err("OutOfBounds") ELSE Ok(0)

\* seg[addr as usize] on an array of len bytes: an index out of range panics
IndexRead(seg, addr, len) ==
    IF addr >= len THEN Panic ELSE Ok(SegByte(seg, addr))

IndexWrite(seg, addr, len, data) ==
    IF addr >= len THEN Panic ELSE Ok(SegPut(seg, addr, data))

read_code_seg(m, addr) ==
    LET c == check_illegal_mem_access(addr, CODE_SEG_SIZE)
    IN  IF ~IsOk(c) THEN c ELSE IndexRead(m.code_seg, addr, CODE_SEG_SIZE)

read_data_seg(m, addr) ==
    LET c == check_illegal_mem_access(addr, DATA_SEG_SIZE)
    IN  IF ~IsOk(c) THEN c ELSE IndexRead(m.data_seg, addr, DATA_SEG_SIZE)

read_stack_seg(m, addr) ==
    LET c == check_illegal_mem_access(addr, STACK_SEG_SIZE)
    IN  IF ~IsOk(c) THEN c ELSE IndexRead(m.stack_seg, addr, STACK_SEG_SIZE)

read_mem_NoOffset(m, addr) ==
    IF addr < CODE_SEG_SIZE
    THEN read_code_seg(m, addr)
    ELSE IF addr < CODE_SEG_SIZE + DATA_SEG_SIZE
         THEN read_data_seg(m, addr)
         ELSE read_stack_seg(m, addr)

\* the unified address space: code, then data, then stack
read_mem(m, addr) ==
    IF addr < CODE_SEG_SIZE
    THEN read_code_seg(m, addr)
    ELSE IF addr < CODE_SEG_SIZE + DATA_SEG_SIZE
         THEN read_data_seg(m, addr - CODE_SEG_SIZE)
         ELSE read_stack_seg(m, addr - CODE_SEG_SIZE - DATA_SEG_SIZE)

\* the writers return the new Memory in val
write_code_seg(m, data, addr) ==
    LET c == check_illegal_mem_access(addr, CODE_SEG_SIZE)
        w == IndexWrite(m.code_seg, addr, CODE_SEG_SIZE, data)
    IN  IF ~IsOk(c) THEN c
        ELSE IF ~IsOk(w) THEN w
        ELSE Ok([m EXCEPT !.code_seg = w.val])

write_data_seg_IntoCode(m, data, addr) == write_code_seg(m, data, addr)

write_data_seg(m, data, addr) ==
    LET c == check_illegal_mem_access(addr, DATA_SEG_SIZE)
        w == IndexWrite(m.data_seg, addr, DATA_SEG_SIZE, data)
    IN  IF ~IsOk(c) THEN c
        ELSE IF ~IsOk(w) THEN w
        ELSE Ok([m EXCEPT !.data_seg = w.val])

write_stack_seg(m, data, addr) ==
    LET c == check_illegal_mem_access(addr, STACK_SEG_SIZE)
        w == IndexWrite(m.stack_seg, addr, STACK_SEG_SIZE, data)
    IN  IF ~IsOk(c) THEN c
        ELSE IF ~IsOk(w) THEN w
        ELSE Ok([m EXCEPT !.stack_seg = w.val])

\* &self.code_seg[addr..addr + size]
CodeSlice(m, addr, size) == [i \in 1..size |-> SegByte(m.code_seg, addr + i - 1)]

read_code_seg_slice(m, addr, size) ==
    LET c1 == check_illegal_mem_access(addr, CODE_SEG_SIZE)
        c2 == check_illegal_mem_access((addr + size) % U16, CODE_SEG_SIZE)
    IN  IF ~IsOk(c1) THEN c1
        ELSE IF ~IsOk(c2) THEN c2
        ELSE IF addr + size > CODE_SEG_SIZE THEN Panic
        ELSE Ok(CodeSlice(m, addr, size))

\* copy_from_slice: bytes written from address a on
PutBytes(seg, a, bytes) ==
    LET range == a..(a + Len(bytes) - 1)
        new == [x \in {y \in range : bytes[y - a + 1] # 0} |-> bytes[x - a + 1]]
    IN  IF (DOMAIN seg) \cap range = {}
        THEN new @@ seg
        ELSE new @@ [x \in (DOMAIN seg) \ range |-> seg[x]]

load_ix(m, from_addr, data) ==
    IF Len(data) > CODE_SEG_SIZE THEN Err("CapacityExceeded")
    ELSE IF from_addr + Len(data) > CODE_SEG_SIZE THEN Panic
    ELSE Ok([m EXCEPT !.code_seg = PutBytes(m.code_seg, from_addr, data)])

\* write_data_seg_slice
write_data_seg_slice(m, data, addr) ==
    LET c1 == check_illegal_mem_access(addr, DATA_SEG_SIZE)
        c2 == check_illegal_mem_access((addr + Len(data)) % U16, DATA_SEG_SIZE)
    IN  IF ~IsOk(c1) THEN c1
        ELSE IF ~IsOk(c2) THEN c2
        ELSE IF addr + Len(data) > DATA_SEG_SIZE THEN Panic
        ELSE Ok([m EXCEPT !.data_seg = PutBytes(m.data_seg, addr, data)])

----------------------------------------------------------------------------
(* vm.rs: decoding *)

\* impl TryFrom<u8> for Register
RegisterTryFrom(val) ==
    IF val \in 0..10 THEN Ok(val) ELSE Err("InvalidRegister")

\* impl TryFrom<u8> for IxType
IxTypeTryFrom(val) ==
    IF val \in 0..4 THEN Ok(val) ELSE Err("InvalidOpcode")

get_addr_from_two_bytes(high, low) == ((high * 256) % U16) + low

\* the body of the sequential loop between taking the locks and exec_ix
SeqDecode(m, pc) ==
    LET ix == read_code_seg(m, pc)
        sz == read_code_seg(m, pc + IX_SIZE_OFFSET)
        dt == read_code_seg_slice(m, pc + IX_DATA_OFFSET, sz.val)
        ty == IxTypeTryFrom(ix.val)
    IN  IF ~IsOk(ix) THEN ix
        ELSE IF ix.val = NOP THEN [res |-> "Break"]
        ELSE IF ~IsOk(sz) THEN sz
        ELSE IF ~IsOk(dt) THEN dt
        ELSE IF ~IsOk(ty) THEN ty
        ELSE Ok([ix_type |-> ty.val, ix_data_size |-> sz.val, ix_data |-> dt.val, pc |-> pc])

\* the same in a task: no test for NOP
TaskDecode(m, pc) ==
    LET ix == read_code_seg(m, pc)
        sz == read_code_seg(m, pc + IX_SIZE_OFFSET)
        dt == read_code_seg_slice(m, pc + IX_DATA_OFFSET, sz.val)
        ty == IxTypeTryFrom(ix.val)
    IN  IF ~IsOk(ix) THEN ix
        ELSE IF ~IsOk(sz) THEN sz
        ELSE IF ~IsOk(dt) THEN dt
        ELSE IF ~IsOk(ty) THEN ty
        ELSE Ok([ix_type |-> ty.val, ix_data_size |-> sz.val, ix_data |-> dt.val, pc |-> pc])

----------------------------------------------------------------------------
(* Bounds of the model *)

\* the longest program the sequential driver loads, in instructions
MaxIxs == 2

\* the longest program the concurrent driver loads, in instructions
MaxScan == 20

\* the history executed keeps this many addresses (a program that loops would
\* grow it for ever)
MaxTrace == MaxIxs + 2

Caller == 0
Tasks == 1..(MaxScan \div BATCH)
Threads == {Caller} \cup Tasks

NoRet == [res |-> "None"]
\* no instruction decoded yet
NoIx == [ix_type |-> NOP, ix_data_size |-> 0, ix_data |-> <<>>, pc |-> -1]
NoTmp == [addr |-> 0, reg |-> 0, reg_val |-> 0, data |-> 0]
NoCall == [op |-> "none"]
NoRace == [twice |-> FALSE, never |-> FALSE]
FreeLock == [readers |-> {}, poisoned |-> FALSE]

\* an instruction's bytes: opcode, operand length, operands
Ix(op, data) == <<op, Len(data)>> \o data

RECURSIVE Flatten(_)
Flatten(ixs) == IF ixs = <<>> THEN <<>> ELSE Head(ixs) \o Flatten(Tail(ixs))

\* VM::new, then the driver: load_ix of the program at base, PC and the other
\* registers set through the public fields, the data segment seeded
Boot(base, ixs, regs, data, start) ==
    /\ IsOk(load_ix(MemoryNew, base, Flatten(ixs)))
    /\ memory = [load_ix(MemoryNew, base, Flatten(ixs)).val EXCEPT !.data_seg = data]
    /\ registers = regs
    /\ mem_lock = FreeLock
    /\ reg_lock = FreeLock
    /\ loc = [t \in Threads |-> IF t = Caller THEN start ELSE "unborn"]
    /\ inx = [t \in Threads |-> NoIx]
    /\ tmp = [t \in Threads |-> NoTmp]
    /\ iter = [t \in Tasks |-> 0]
    /\ ret = [t \in Threads |-> NoRet]
    /\ ix_pointer = 0
    /\ ixs_count = 0
    /\ threads = <<>>
    /\ joined = 0
    /\ snap = [t \in Threads |-> [registers |-> regs, memory |-> MemoryNew, open |-> FALSE]]
    /\ executed = <<>>
    /\ prog = [base |-> base, ixs |-> ixs, regs |-> regs, data |-> data,
               starts |-> {base + Len(Flatten(SubSeq(ixs, 1, i - 1))) : i \in 1..Len(ixs)}]
    /\ mem_call = NoCall
    /\ loaded_idx = base + Len(Flatten(ixs))
    /\ race = NoRace

ZeroRegs == [r \in 0..(REG_COUNT - 1) |-> 0]

----------------------------------------------------------------------------
(* Locks.  A read guard is granted when no write guard is held; write       *)
(* critical sections are single steps, so that is always.  A write guard is *)
(* granted when nobody holds a read guard.  A panic while a write guard is  *)
(* held poisons the lock; read guards are released by the unwinding.        *)

Hold(l, t) == [l EXCEPT !.readers = @ \cup {t}]
Release(l, t) == [l EXCEPT !.readers = @ \ {t}]
Poison(l, t) == [l EXCEPT !.readers = @ \ {t}, !.poisoned = TRUE]
WriteGrantable(l) == l.readers = {}

\* thread t leaves its function with r (an Err through ?, or a panic), its guards dropped
Leave(t, r, pm, pr) ==
    /\ loc' = [loc EXCEPT ![t] = "done"]
    /\ ret' = [ret EXCEPT ![t] = r]
    /\ mem_lock' = IF pm THEN Poison(mem_lock, t) ELSE Release(mem_lock, t)
    /\ reg_lock' = IF pr THEN Poison(reg_lock, t) ELSE Release(reg_lock, t)
    /\ tmp' = [tmp EXCEPT ![t] = NoTmp]

Goto(t, where) == loc' = [loc EXCEPT ![t] = where]

\* where a thread continues when exec_ix has returned Ok
AfterExec(t) ==
    IF t = Caller THEN "seq_reg"
    ELSE IF iter[t] + 1 = TASK_ITERS THEN "done" ELSE "task_mem"

UNCH_sched == UNCHANGED <<ix_pointer, ixs_count, threads, joined, prog, mem_call, loaded_idx>>

----------------------------------------------------------------------------
(* parseand_exec_ixs_seq: the loop of thread 0 *)

\* reg_cpy.read(): take the read guard of the registers
SeqLockRegs ==
    /\ loc[Caller] = "seq_reg"
    /\ IF reg_lock.poisoned
       THEN /\ Leave(Caller, Err("Poisoned"), FALSE, FALSE)
            /\ UNCHANGED <<inx>>
       ELSE /\ reg_lock' = Hold(reg_lock, Caller)
            /\ Goto(Caller, "seq_mem")
            /\ UNCHANGED <<mem_lock, ret, tmp, inx>>
    /\ UNCHANGED <<memory, registers, iter, snap, executed, race>>
    /\ UNCH_sched

\* pc read, mem_cpy.read(), the decode; NOP breaks the loop, and Ok(()) is returned
SeqFetch ==
    /\ loc[Caller] = "seq_mem"
    /\ LET d == IF mem_lock.poisoned THEN Err("Poisoned")
                ELSE SeqDecode(memory, registers[REG_PC])
       IN  IF d.res = "Break"
           THEN /\ Leave(Caller, Ok(0), FALSE, FALSE)
                /\ UNCHANGED <<inx, snap>>
           ELSE IF ~IsOk(d)
           THEN /\ Leave(Caller, d, FALSE, FALSE)
                /\ UNCHANGED <<inx, snap>>
           ELSE /\ inx' = [inx EXCEPT ![Caller] = d.val]
                /\ snap' = [snap EXCEPT ![Caller] = [registers |-> registers, memory |-> memory,
                                                     open |-> TRUE]]
                /\ Goto(Caller, "exec")
                /\ reg_lock' = Release(reg_lock, Caller)
                /\ UNCHANGED <<mem_lock, ret, tmp>>
    /\ UNCHANGED <<memory, registers, iter, executed, race>>
    /\ UNCH_sched

----------------------------------------------------------------------------
(* exec_ix, run by thread t on inx[t] *)

UNCH_exec == UNCHANGED <<inx, iter, snap, executed, race>>

\* ix_data[i] of the Rust code is ix_data[i + 1] here; a missing operand panics
Has(t, n) == Len(inx[t].ix_data) >= n
Operand(t, i) == inx[t].ix_data[i + 1]

\* the match on ix_type, up to the arm's first lock
ExecDispatch(t) ==
    /\ loc[t] = "exec"
    /\ LET ty == inx[t].ix_type
           reg0 == RegisterTryFrom(Operand(t, 0))
           reg2 == RegisterTryFrom(Operand(t, 2))
           addr == get_addr_from_two_bytes(Operand(t, 0), Operand(t, 1))
       IN  CASE ty = NOP ->
                  /\ Goto(t, "pc_w")
                  /\ UNCHANGED <<ret, mem_lock, reg_lock, tmp>>
             [] ty = MOV ->
                  IF ~Has(t, 1) THEN Leave(t, Panic, FALSE, FALSE)
                  ELSE IF ~IsOk(reg0) THEN Leave(t, reg0, FALSE, FALSE)
                  ELSE /\ tmp' = [tmp EXCEPT ![t].reg = reg0.val]
                       /\ Goto(t, "mov_w")
                       /\ UNCHANGED <<ret, mem_lock, reg_lock>>
             [] ty = LDM ->
                  IF ~Has(t, 2) THEN Leave(t, Panic, FALSE, FALSE)
                  ELSE /\ tmp' = [tmp EXCEPT ![t].addr = addr]
                       /\ Goto(t, "ldm_r")
                       /\ UNCHANGED <<ret, mem_lock, reg_lock>>
             [] ty = STM ->
                  IF ~Has(t, 2) THEN Leave(t, Panic, FALSE, FALSE)
                  ELSE /\ tmp' = [tmp EXCEPT ![t].addr = addr]
                       /\ Goto(t, "stm_r")
                       /\ UNCHANGED <<ret, mem_lock, reg_lock>>
             [] ty = ADD ->
                  IF ~Has(t, 3) THEN Leave(t, Panic, FALSE, FALSE)
                  ELSE IF ~IsOk(reg2) THEN Leave(t, reg2, FALSE, FALSE)
                  ELSE /\ tmp' = [tmp EXCEPT ![t].addr = addr, ![t].reg = reg2.val]
                       /\ Goto(t, "add_r1")
                       /\ UNCHANGED <<ret, mem_lock, reg_lock>>
    /\ UNCHANGED <<memory, registers>>
    /\ UNCH_exec /\ UNCH_sched

\* MOV: reg_cpy.write(), registers[reg] = ix_data[1], drop
MovWrite(t) ==
    /\ loc[t] = "mov_w"
    /\ WriteGrantable(reg_lock)
    /\ IF reg_lock.poisoned
       THEN Leave(t, Err("Poisoned"), FALSE, FALSE) /\ UNCHANGED registers
       ELSE IF ~Has(t, 2) \/ tmp[t].reg >= REG_COUNT
       THEN Leave(t, Panic, FALSE, TRUE) /\ UNCHANGED registers
       ELSE /\ registers' = [registers EXCEPT ![tmp[t].reg] = Operand(t, 1)]
            /\ Goto(t, "pc_w")
            /\ UNCHANGED <<ret, mem_lock, reg_lock, tmp>>
    /\ UNCHANGED <<memory>>
    /\ UNCH_exec /\ UNCH_sched

\* LDM: mem_cpy.read(), read_data_seg(addr)?, Register::try_from(ix_data[2])?
LdmRead(t) ==
    /\ loc[t] = "ldm_r"
    /\ LET data == read_data_seg(memory, tmp[t].addr)
           reg == RegisterTryFrom(Operand(t, 2))
       IN  IF mem_lock.poisoned THEN Leave(t, Err("Poisoned"), FALSE, FALSE)
           ELSE IF ~IsOk(data) THEN Leave(t, data, FALSE, FALSE)
           ELSE IF ~Has(t, 3) THEN Leave(t, Panic, FALSE, FALSE)
           ELSE IF ~IsOk(reg) THEN Leave(t, reg, FALSE, FALSE)
           ELSE /\ tmp' = [tmp EXCEPT ![t].data = data.val, ![t].reg = reg.val]
                /\ mem_lock' = Hold(mem_lock, t)
                /\ Goto(t, "ldm_w")
                /\ UNCHANGED <<ret, reg_lock>>
    /\ UNCHANGED <<memory, registers>>
    /\ UNCH_exec /\ UNCH_sched

\* LDM: reg_cpy.write().unwrap(), registers[reg] = data; both guards dropped
LdmWrite(t) ==
    /\ loc[t] = "ldm_w"
    /\ WriteGrantable(reg_lock)
    /\ IF reg_lock.poisoned
       THEN Leave(t, Panic, FALSE, FALSE) /\ UNCHANGED registers
       ELSE IF tmp[t].reg >= REG_COUNT
       THEN Leave(t, Panic, FALSE, TRUE) /\ UNCHANGED registers
       ELSE /\ registers' = [registers EXCEPT ![tmp[t].reg] = tmp[t].data]
            /\ mem_lock' = Release(mem_lock, t)
            /\ Goto(t, "pc_w")
            /\ UNCHANGED <<ret, reg_lock, tmp>>
    /\ UNCHANGED <<memory>>
    /\ UNCH_exec /\ UNCH_sched

\* STM: reg_cpy.read(), reg_val = registers[ix_data[2] as usize] as u8
StmRead(t) ==
    /\ loc[t] = "stm_r"
    /\ IF reg_lock.poisoned THEN Leave(t, Err("Poisoned"), FALSE, FALSE)
       ELSE IF ~Has(t, 3) THEN Leave(t, Panic, FALSE, FALSE)
       ELSE IF Operand(t, 2) >= REG_COUNT THEN Leave(t, Panic, FALSE, FALSE)
       ELSE /\ tmp' = [tmp EXCEPT ![t].reg_val = registers[Operand(t, 2)] % U8]
            /\ reg_lock' = Hold(reg_lock, t)
            /\ Goto(t, "stm_w")
            /\ UNCHANGED <<ret, mem_lock>>
    /\ UNCHANGED <<memory, registers>>
    /\ UNCH_exec /\ UNCH_sched

\* STM: mem_cpy.write().unwrap().write_data_seg(reg_val, addr)?; the read guard dropped
StmWrite(t) ==
    /\ loc[t] = "stm_w"
    /\ WriteGrantable(mem_lock)
    /\ LET w == write_data_seg(memory, tmp[t].reg_val, tmp[t].addr)
       IN  IF mem_lock.poisoned THEN Leave(t, Panic, FALSE, FALSE) /\ UNCHANGED memory
           ELSE IF w.res = "Panic" THEN Leave(t, Panic, TRUE, FALSE) /\ UNCHANGED memory
           ELSE IF ~IsOk(w) THEN Leave(t, w, FALSE, FALSE) /\ UNCHANGED memory
           ELSE /\ memory' = w.val
                /\ reg_lock' = Release(reg_lock, t)
                /\ Goto(t, "pc_w")
                /\ UNCHANGED <<ret, mem_lock, tmp>>
    /\ UNCHANGED <<registers>>
    /\ UNCH_exec /\ UNCH_sched

\* ADD: reg_cpy.read(), reg_val = registers[reg]
AddReadReg(t) ==
    /\ loc[t] = "add_r1"
    /\ IF reg_lock.poisoned THEN Leave(t, Err("Poisoned"), FALSE, FALSE)
       ELSE IF tmp[t].reg >= REG_COUNT THEN Leave(t, Panic, FALSE, FALSE)
       ELSE /\ tmp' = [tmp EXCEPT ![t].reg_val = registers[tmp[t].reg]]
            /\ reg_lock' = Hold(reg_lock, t)
            /\ Goto(t, "add_r2")
            /\ UNCHANGED <<ret, mem_lock>>
    /\ UNCHANGED <<memory, registers>>
    /\ UNCH_exec /\ UNCH_sched

\* ADD: mem_cpy.read(), data = read_data_seg(addr)?
AddReadMem(t) ==
    /\ loc[t] = "add_r2"
    /\ LET data == read_data_seg(memory, tmp[t].addr)
       IN  IF mem_lock.poisoned THEN Leave(t, Err("Poisoned"), FALSE, FALSE)
           ELSE IF ~IsOk(data) THEN Leave(t, data, FALSE, FALSE)
           ELSE /\ tmp' = [tmp EXCEPT ![t].data = data.val]
                /\ mem_lock' = Hold(mem_lock, t)
                /\ Goto(t, "add_w")
                /\ UNCHANGED <<ret, reg_lock>>
    /\ UNCHANGED <<memory, registers>>
    /\ UNCH_exec /\ UNCH_sched

\* ADD: reg_cpy.write().unwrap() while this thread still holds reg_read_lock.
\* std::sync::RwLock::write: "This function might panic when called if the lock
\* is already held by the current thread"; otherwise the thread waits for its
\* own read guard for ever.  The write itself needs the guard to be granted.
AddWrite(t) ==
    /\ loc[t] = "add_w"
    /\ IF t \in reg_lock.readers
       THEN \/ /\ Goto(t, "blocked")
               /\ UNCHANGED <<ret, mem_lock, reg_lock, tmp, registers>>
            \/ Leave(t, Panic, FALSE, FALSE) /\ UNCHANGED registers
       ELSE /\ WriteGrantable(reg_lock)
            /\ IF reg_lock.poisoned
               THEN Leave(t, Panic, FALSE, FALSE) /\ UNCHANGED registers
               ELSE /\ registers' = [registers EXCEPT
                                       ![tmp[t].reg] = (tmp[t].reg_val + tmp[t].data) % U16]
                    /\ mem_lock' = Release(mem_lock, t)
                    /\ Goto(t, "pc_w")
                    /\ UNCHANGED <<ret, reg_lock, tmp>>
    /\ UNCHANGED <<memory>>
    /\ UNCH_exec /\ UNCH_sched

\* a task has decoded inx[u] and has not yet advanced PC for it
InFlight(u) ==
    loc[u] \in {"task_drop", "exec", "mov_w", "ldm_r", "ldm_w", "stm_r", "stm_w",
                "add_r1", "add_r2", "add_w", "pc_w", "blocked"}

\* pc is where one of the loaded instructions starts
IsStart(pc) == pc \in prog.starts

\* some other task is executing the instruction at pc
BeingExecuted(t, pc) ==
    IsStart(pc) /\ \E u \in Tasks \ {t} : InFlight(u) /\ inx[u].pc = pc

\* PC moves from one address to another past an instruction no task has decoded
Undecoded(from, to) ==
    \E q \in from..(to - 1) : IsStart(q) /\ \A u \in Tasks : InFlight(u) => inx[u].pc # q

\* registers[PC] += ix_data_size as u16 + IX_META_SIZE: an overflow panics in a
\* build with overflow checks and wraps in one without
\* (an executor that forgets the header's two bytes)
PcSums_NoHeader(pc, size) == {Ok((pc + size) % U16)}

PcSums(pc, size) ==
    IF pc + size + IX_META_SIZE < U16
    THEN {Ok(pc + size + IX_META_SIZE)}
    ELSE {Ok((pc + size + IX_META_SIZE) % U16), Panic}

\* the end of exec_ix: reg_cpy.write().unwrap(), the PC advance, Ok(())
PcAdvance(t) ==
    /\ loc[t] = "pc_w"
    /\ WriteGrantable(reg_lock)
    /\ IF reg_lock.poisoned
       THEN /\ Leave(t, Panic, FALSE, FALSE)
            /\ UNCHANGED <<registers, iter, executed, snap, race>>
       ELSE \E s \in PcSums(registers[REG_PC], inx[t].ix_data_size) :
              IF ~IsOk(s)
              THEN /\ Leave(t, Panic, FALSE, TRUE)
                   /\ UNCHANGED <<registers, iter, executed, snap, race>>
              ELSE /\ registers' = [registers EXCEPT ![REG_PC] = s.val]
                   /\ Goto(t, AfterExec(t))
                   /\ tmp' = [tmp EXCEPT ![t] = NoTmp]
                   /\ iter' = IF t = Caller THEN iter ELSE [iter EXCEPT ![t] = @ + 1]
                   /\ ret' = IF AfterExec(t) = "done" THEN [ret EXCEPT ![t] = Ok(0)] ELSE ret
                   /\ executed' = IF t = Caller /\ Len(executed) < MaxTrace
                                  THEN Append(executed, inx[t].pc) ELSE executed
                   /\ snap' = [snap EXCEPT ![t].open = FALSE]
                   /\ race' = IF t # Caller /\ Undecoded(registers[REG_PC], s.val)
                              THEN [race EXCEPT !.never = TRUE] ELSE race
                   /\ UNCHANGED <<mem_lock, reg_lock>>
    /\ UNCHANGED <<memory, inx>>
    /\ UNCH_sched

----------------------------------------------------------------------------
(* Sequential mode as a function: with one thread every lock is free when   *)
(* it is asked for, except the write guard ADD asks for under its own read  *)
(* guard.  A run is a record of the registers, the memory and the result:   *)
(* NoRet while the loop is running.                                         *)

Blocked == [res |-> "Blocked"]
Overflow == [res |-> "Overflow"]

\* exec_ix on a decoded instruction.  Blocked: the thread waits for its own
\* guard, or panics on asking.  Overflow: the PC advance passes 65535, a panic
\* in a build with overflow checks and a wrap in one without
ExecIx(regs, mem, ix) ==
    LET d == ix.ix_data
        has(n) == Len(d) >= n
        addr == get_addr_from_two_bytes(d[1], d[2])
        fail(r) == [res |-> r, registers |-> regs, memory |-> mem]
        advance(rg, m) ==
            LET sums == PcSums(rg[REG_PC], ix.ix_data_size)
            IN  IF Panic \in sums
                THEN [res |-> Overflow, registers |-> rg, memory |-> m]
                ELSE [res |-> NoRet, memory |-> m,
                      registers |-> [rg EXCEPT ![REG_PC] = (CHOOSE x \in sums : TRUE).val]]
    IN  CASE ix.ix_type = NOP -> advance(regs, mem)
          [] ix.ix_type = MOV ->
               LET reg == RegisterTryFrom(d[1])
               IN  IF ~has(1) THEN fail(Panic)
                   ELSE IF ~IsOk(reg) THEN fail(reg)
                   ELSE IF ~has(2) \/ reg.val >= REG_COUNT THEN fail(Panic)
                   ELSE advance([regs EXCEPT ![reg.val] = d[2]], mem)
          [] ix.ix_type = LDM ->
               LET data == read_data_seg(mem, addr)
                   reg == RegisterTryFrom(d[3])
               IN  IF ~has(2) THEN fail(Panic)
                   ELSE IF ~IsOk(data) THEN fail(data)
                   ELSE IF ~has(3) THEN fail(Panic)
                   ELSE IF ~IsOk(reg) THEN fail(reg)
                   ELSE IF reg.val >= REG_COUNT THEN fail(Panic)
                   ELSE advance([regs EXCEPT ![reg.val] = data.val], mem)
          [] ix.ix_type = STM ->
               LET w == write_data_seg(mem, regs[d[3]] % U8, addr)
               IN  IF ~has(3) THEN fail(Panic)
                   ELSE IF d[3] >= REG_COUNT THEN fail(Panic)
                   ELSE IF ~IsOk(w) THEN fail(w)
                   ELSE advance(regs, w.val)
          [] ix.ix_type = ADD ->
               LET reg == RegisterTryFrom(d[3])
                   data == read_data_seg(mem, addr)
               IN  IF ~has(3) THEN fail(Panic)
                   ELSE IF ~IsOk(reg) THEN fail(reg)
                   ELSE IF reg.val >= REG_COUNT THEN fail(Panic)
                   ELSE IF ~IsOk(data) THEN fail(data)
                   ELSE fail(Blocked)

\* one turn of the loop of parseand_exec_ixs_seq; a run that is over stays as it is
SeqIter(s) ==
    IF s.res # NoRet THEN s
    ELSE LET dec == SeqDecode(s.memory, s.registers[REG_PC])
         IN  IF dec.res = "Break" THEN [s EXCEPT !.res = Ok(0)]
             ELSE IF ~IsOk(dec) THEN [s EXCEPT !.res = dec]
             ELSE ExecIx(s.registers, s.memory, dec.val)

\* n turns of the loop: the first half of them, then, if the loop is still
\* running, the rest
RECURSIVE SeqRunN(_, _)
SeqRunN(s, n) ==
    IF n = 0 THEN s
    ELSE IF n = 1 THEN SeqIter(s)
    ELSE LET half == SeqRunN(s, n \div 2)
         IN  IF half.res # NoRet THEN half ELSE SeqRunN(half, n - (n \div 2))

----------------------------------------------------------------------------
(* parse_and_exec_ixs_concurrent: the caller *)

UNCH_task == UNCHANGED <<memory, registers, inx, tmp, iter, snap, executed, prog, mem_call,
                         loaded_idx, race>>

\* ix_pointer = registers[PC], read under a read guard dropped at once
ConcStart ==
    /\ loc[Caller] = "conc_pc"
    /\ IF reg_lock.poisoned
       THEN Leave(Caller, Err("Poisoned"), FALSE, FALSE) /\ UNCHANGED ix_pointer
       ELSE /\ ix_pointer' = registers[REG_PC]
            /\ Goto(Caller, "scan")
            /\ UNCHANGED <<ret, mem_lock, reg_lock, tmp>>
    /\ UNCHANGED <<memory, registers, inx, iter, snap, executed, prog, mem_call,
                   ixs_count, threads, joined, loaded_idx, race>>

\* (a scan that moves the PC register along with its cursor)
ScanStep_MovesPc ==
    /\ loc[Caller] = "scan"
    /\ LET ix == read_code_seg(memory, ix_pointer)
           sz == read_code_seg(memory, ix_pointer + IX_SIZE_OFFSET)
       IN  IF mem_lock.poisoned \/ ~IsOk(ix) \/ ~IsOk(sz)
           THEN /\ Leave(Caller, Err("Poisoned"), FALSE, FALSE)
                /\ UNCHANGED <<ix_pointer, ixs_count, registers>>
           ELSE IF ix.val = NOP
           THEN /\ Goto(Caller, "spawn")
                /\ UNCHANGED <<ret, mem_lock, reg_lock, tmp, ix_pointer, ixs_count, registers>>
           ELSE /\ ixs_count' = ixs_count + 1
                /\ ix_pointer' = ix_pointer + sz.val + IX_META_SIZE
                /\ registers' = [registers EXCEPT ![REG_PC] = ix_pointer + sz.val + IX_META_SIZE]
                /\ UNCHANGED <<loc, ret, mem_lock, reg_lock, tmp>>
    /\ UNCHANGED <<memory, inx, iter, snap, executed, prog, mem_call,
                   threads, joined, loaded_idx, race>>

\* one turn of the scan loop: both header bytes are read, then the NOP test
ScanStep ==
    /\ loc[Caller] = "scan"
    /\ LET ix == read_code_seg(memory, ix_pointer)
           sz == read_code_seg(memory, ix_pointer + IX_SIZE_OFFSET)
       IN  IF mem_lock.poisoned
           THEN Leave(Caller, Err("Poisoned"), FALSE, FALSE) /\ UNCHANGED <<ix_pointer, ixs_count>>
           ELSE IF ~IsOk(ix)
           THEN Leave(Caller, ix, FALSE, FALSE) /\ UNCHANGED <<ix_pointer, ixs_count>>
           ELSE IF ~IsOk(sz)
           THEN Leave(Caller, sz, FALSE, FALSE) /\ UNCHANGED <<ix_pointer, ixs_count>>
           ELSE IF ix.val = NOP
           THEN /\ Goto(Caller, "spawn")
                /\ UNCHANGED <<ret, mem_lock, reg_lock, tmp, ix_pointer, ixs_count>>
           ELSE /\ ixs_count' = ixs_count + 1
                /\ ix_pointer' = ix_pointer + sz.val + IX_META_SIZE
                /\ UNCHANGED <<loc, ret, mem_lock, reg_lock, tmp>>
    /\ UNCHANGED <<memory, registers, inx, iter, snap, executed, prog, mem_call,
                   threads, joined, loaded_idx, race>>

\* (a scheduler that rounds the number of tasks up)
SpawnCount_RoundUp(n) == (n + BATCH - 1) \div BATCH

\* the number of tasks: ixs_count / 10
SpawnCount(n) == n \div BATCH

\* for _ in 0..(ixs_count / 10): thread::spawn, one task a step
Spawn ==
    /\ loc[Caller] = "spawn"
    /\ IF Len(threads) < SpawnCount(ixs_count)
       THEN /\ threads' = Append(threads, Len(threads) + 1)
            /\ loc' = [loc EXCEPT ![Len(threads) + 1] = "task_mem"]
       ELSE /\ Goto(Caller, "join")
            /\ UNCHANGED threads
    /\ UNCHANGED <<ret, mem_lock, reg_lock, ix_pointer, ixs_count, joined>>
    /\ UNCH_task

\* thread.join().map_err(|_| "Thread panicked")??: waits for the next handle's
\* task; its error, or its panic, is returned at once, the handles left dropped
Join ==
    /\ loc[Caller] = "join"
    /\ joined < Len(threads)
    /\ loc[threads[joined + 1]] = "done"
    /\ LET r == ret[threads[joined + 1]]
       IN  IF IsOk(r)
           THEN /\ joined' = joined + 1
                /\ UNCHANGED <<loc, ret, mem_lock, reg_lock, tmp>>
           ELSE /\ Leave(Caller, IF r.res = "Panic" THEN Err("ThreadPanicked") ELSE r,
                         FALSE, FALSE)
                /\ UNCHANGED joined
    /\ UNCHANGED <<memory, registers, inx, iter, snap, executed, prog, mem_call,
                   ix_pointer, ixs_count, threads, loaded_idx, race>>

\* the Ok(()) after the join loop
ConcReturn ==
    /\ loc[Caller] = "join"
    /\ joined = Len(threads)
    /\ Leave(Caller, Ok(0), FALSE, FALSE)
    /\ UNCHANGED <<memory, registers, inx, iter, snap, executed, prog, mem_call,
                   ix_pointer, ixs_count, threads, joined, loaded_idx, race>>

----------------------------------------------------------------------------
(* parse_and_exec_ixs_concurrent: a task *)

\* mem_cpy.read()
TaskLockMem(t) ==
    /\ loc[t] = "task_mem"
    /\ IF mem_lock.poisoned
       THEN Leave(t, Err("Poisoned"), FALSE, FALSE)
       ELSE /\ mem_lock' = Hold(mem_lock, t)
            /\ Goto(t, "task_reg")
            /\ UNCHANGED <<ret, reg_lock, tmp>>
    /\ UNCHANGED <<memory, registers, inx, iter, snap, executed, race>>
    /\ UNCH_sched

\* reg_cpy.read(), pc = registers[PC], the decode
TaskFetch(t) ==
    /\ loc[t] = "task_reg"
    /\ LET d == TaskDecode(memory, registers[REG_PC])
       IN  IF reg_lock.poisoned
           THEN Leave(t, Err("Poisoned"), FALSE, FALSE) /\ UNCHANGED <<inx, race>>
           ELSE IF ~IsOk(d)
           THEN Leave(t, d, FALSE, FALSE) /\ UNCHANGED <<inx, race>>
           ELSE /\ inx' = [inx EXCEPT ![t] = d.val]
                /\ reg_lock' = Hold(reg_lock, t)
                /\ Goto(t, "task_drop")
                /\ race' = IF BeingExecuted(t, registers[REG_PC])
                           THEN [race EXCEPT !.twice = TRUE] ELSE race
                /\ UNCHANGED <<ret, mem_lock, tmp>>
    /\ UNCHANGED <<memory, registers, iter, snap, executed>>
    /\ UNCH_sched

\* drop(mem_read_lock); drop(reg_read_lock); then exec_ix is entered
TaskDrop(t) ==
    /\ loc[t] = "task_drop"
    /\ mem_lock' = Release(mem_lock, t)
    /\ reg_lock' = Release(reg_lock, t)
    /\ snap' = [snap EXCEPT ![t] = [registers |-> registers, memory |-> memory, open |-> TRUE]]
    /\ Goto(t, "exec")
    /\ UNCHANGED <<memory, registers, inx, tmp, iter, ret, executed, race>>
    /\ UNCH_sched

----------------------------------------------------------------------------
(* The executor's steps, by whichever thread *)

Exec(t) ==
    \/ ExecDispatch(t)
    \/ MovWrite(t)
    \/ LdmRead(t)
    \/ LdmWrite(t)
    \/ StmRead(t)
    \/ StmWrite(t)
    \/ AddReadReg(t)
    \/ AddReadMem(t)
    \/ AddWrite(t)
    \/ PcAdvance(t)

----------------------------------------------------------------------------
(* The Memory operations called directly by thread 0 (the driver holds the  *)
(* write guard for the whole call, as bin/vm.rs does)                       *)

Segments == {"code", "data", "stack"}

Capacity(seg) ==
    CASE seg = "code" -> CODE_SEG_SIZE
      [] seg = "data" -> DATA_SEG_SIZE
      [] seg = "stack" -> STACK_SEG_SIZE

\* the addresses tried on a segment: both ends, and around its capacity
ProbeAddrs(seg) == {0, Capacity(seg) - 1, Capacity(seg), Capacity(seg) + 1, U16 - 1}

\* the unified addresses tried: the first and last two of each range
UnifiedProbes ==
    LET data == CODE_SEG_SIZE
        stack == CODE_SEG_SIZE + DATA_SEG_SIZE
    IN  {0, 1, data - 2, data - 1, data, data + 1, stack - 2, stack - 1,
         stack, stack + 1, U16 - 2, U16 - 1}

ProbeBytes == {0, 255}

ReadSeg(seg, m, addr) ==
    CASE seg = "code" -> read_code_seg(m, addr)
      [] seg = "data" -> read_data_seg(m, addr)
      [] seg = "stack" -> read_stack_seg(m, addr)

WriteSeg(seg, m, data, addr) ==
    CASE seg = "code" -> write_code_seg(m, data, addr)
      [] seg = "data" -> write_data_seg(m, data, addr)
      [] seg = "stack" -> write_stack_seg(m, data, addr)

UNCH_vm == UNCHANGED <<registers, reg_lock, inx, tmp, iter, ix_pointer, ixs_count,
                       threads, joined, snap, executed, prog, loaded_idx, race>>

\* a panic under the write guard poisons the Memory lock and ends the thread
MemReturn(call, r) ==
    /\ mem_call' = [call EXCEPT !.ret = r, !.pre = memory]
    /\ IF r.res = "Panic"
       THEN /\ loc' = [loc EXCEPT ![Caller] = "done"]
            /\ ret' = [ret EXCEPT ![Caller] = Panic]
            /\ mem_lock' = Poison(mem_lock, Caller)
       ELSE UNCHANGED <<loc, ret, mem_lock>>

\* read_code_seg, read_data_seg, read_stack_seg
MemRead ==
    /\ loc[Caller] = "mem"
    /\ \E seg \in Segments : \E addr \in ProbeAddrs(seg) :
          MemReturn([op |-> "read", seg |-> seg, addr |-> addr, data |-> 0,
                     ret |-> NoRet, pre |-> memory],
                    ReadSeg(seg, memory, addr))
    /\ UNCHANGED memory
    /\ UNCH_vm

\* read_mem
MemReadUnified ==
    /\ loc[Caller] = "mem"
    /\ \E addr \in UnifiedProbes :
          MemReturn([op |-> "read_mem", seg |-> "unified", addr |-> addr, data |-> 0,
                     ret |-> NoRet, pre |-> memory],
                    read_mem(memory, addr))
    /\ UNCHANGED memory
    /\ UNCH_vm

\* write_code_seg, write_data_seg, write_stack_seg
MemWrite ==
    /\ loc[Caller] = "mem"
    /\ \E seg \in Segments : \E addr \in ProbeAddrs(seg) : \E data \in ProbeBytes :
          LET w == WriteSeg(seg, memory, data, addr)
          IN  /\ MemReturn([op |-> "write", seg |-> seg, addr |-> addr, data |-> data,
                            ret |-> NoRet, pre |-> memory],
                           IF IsOk(w) THEN Ok(0) ELSE w)
              /\ memory' = IF IsOk(w) THEN w.val ELSE memory
    /\ UNCH_vm

----------------------------------------------------------------------------
(* Start states *)

\* bin/vm.rs seeds the data segment with these five bytes at address 0
DriverData == PutBytes(EmptySeg, 0, <<18, 17, 15, 15, 10>>)

\* registers set through the public field before the run
SeededRegs == [ZeroRegs EXCEPT ![REG_A] = 4660, ![REG_B] = 65535]

\* the instructions the sequential programs are made of: every opcode, the
\* registers A, B, PC, DP and a byte that names none, data addresses on both
\* sides of the capacity, operand lists that are short or long, an unknown
\* opcode with no operands and one whose length byte announces 255 of them
SeqIxs ==
    {Ix(MOV, <<r, 255>>) : r \in {REG_A, REG_PC, REG_DP, 11}}
    \cup {Ix(MOV, <<REG_PC, 0>>), Ix(MOV, <<REG_B>>), Ix(MOV, <<REG_B, 3, 7>>), Ix(MOV, <<>>)}
    \cup {Ix(LDM, <<0, 0, r>>) : r \in {REG_B, REG_PC, REG_DP, 11}}
    \cup {Ix(LDM, <<32, 0, REG_A>>), Ix(LDM, <<32, 1, REG_A>>), Ix(LDM, <<0>>)}
    \cup {Ix(STM, <<0, 0, r>>) : r \in {REG_A, REG_B, REG_PC, REG_DP, 11}}
    \cup {Ix(STM, <<32, 0, REG_A>>), Ix(STM, <<32, 1, REG_A>>), Ix(STM, <<0, 1, REG_A>>)}
    \cup {Ix(ADD, <<0, 0, r>>) : r \in {REG_A, REG_DP, 11}}
    \cup {Ix(ADD, <<32, 1, REG_A>>)}
    \cup {Ix(5, <<>>), <<5, 255>>}

RECURSIVE SeqsUpTo(_, _)
SeqsUpTo(S, n) ==
    IF n = 0 THEN {<<>>}
    ELSE LET shorter == SeqsUpTo(S, n - 1)
         IN  shorter \cup {Append(p, x) : p \in shorter, x \in S}

\* where the sequential programs are loaded: the start of the code segment, an
\* address a MOV into PC can reach, and the last eight bytes
SeqBases == {0, 4, CODE_SEG_SIZE - 8}

InitSeq ==
    \E ixs \in SeqsUpTo(SeqIxs, MaxIxs) :
    \E base \in SeqBases :
    \E pc \in {base, CODE_SEG_SIZE, CODE_SEG_SIZE + 1} :
    \E seeded \in BOOLEAN :
        /\ pc # base => base = 0
        /\ Boot(base, ixs,
                [(IF seeded THEN SeededRegs ELSE ZeroRegs) EXCEPT ![REG_PC] = pc],
                IF seeded THEN DriverData ELSE EmptySeg, "seq_reg")

NextSeq ==
    \/ SeqLockRegs
    \/ SeqFetch
    \/ Exec(Caller)

SpecSeq == InitSeq /\ [][NextSeq]_vars

\* thread 0 is the only thread and is always scheduled
FairSeq == SpecSeq /\ WF_vars(NextSeq)

\* the instruction the concurrent programs repeat
ConcIxs ==
    {Ix(MOV, <<REG_A, 1>>), Ix(MOV, <<REG_DP, 1>>), Ix(5, <<>>),
     Ix(STM, <<0, 1, REG_A>>), Ix(ADD, <<0, 0, REG_A>>)}

\* the programs the concurrent driver loads repeat one of these: each
\* instruction of ConcIxs alone, a MOV and an LDM in turn (operand lengths 2
\* and 3), a MOV into PC that jumps past the program
ConcPatterns ==
    {<<ix>> : ix \in ConcIxs}
    \cup {<<Ix(MOV, <<REG_A, 1>>), Ix(LDM, <<0, 0, REG_B>>)>>, <<Ix(MOV, <<REG_PC, 252>>)>>}

Cycle(pat, n) == [i \in 1..n |-> pat[((i - 1) % Len(pat)) + 1]]

\* the patterns of the programs long enough for two tasks
RacePatterns ==
    {<<Ix(MOV, <<REG_A, 1>>)>>, <<Ix(MOV, <<REG_DP, 1>>)>>, <<Ix(5, <<>>)>>,
     <<Ix(ADD, <<0, 0, REG_A>>)>>, <<Ix(MOV, <<REG_A, 1>>), Ix(LDM, <<0, 0, REG_B>>)>>}

\* the program sits at the start of the code segment; one short enough for a
\* single task also 0, 1 or 2 bytes before the segment's end
InitConc ==
    \E n \in 0..MaxScan :
    \E pat \in (IF n < 2 * BATCH THEN ConcPatterns ELSE RacePatterns) :
    \E base \in {0} \cup (IF n <= BATCH
                          THEN {CODE_SEG_SIZE - Len(Flatten(Cycle(pat, n))) - gap : gap \in 0..2}
                          ELSE {}) :
        Boot(base, Cycle(pat, n), [ZeroRegs EXCEPT ![REG_PC] = base],
             DriverData, "conc_pc")

NextConc ==
    \/ ConcStart
    \/ ScanStep
    \/ Spawn
    \/ Join
    \/ ConcReturn
    \/ \E t \in Tasks : TaskLockMem(t) \/ TaskFetch(t) \/ TaskDrop(t) \/ Exec(t)

SpecConc == InitConc /\ [][NextConc]_vars

InitMem == Boot(0, <<>>, ZeroRegs, EmptySeg, "mem")

----------------------------------------------------------------------------
(* The driver (bin/vm.rs): a fresh VM, the same MOV loaded back to back from *)
(* code address 0, then exec_seq                                             *)

\* for i in 0..10
DRIVER_COPIES == 10

\* &[0x01, 0x02, 0x00, 0x01]: MOV A, 1
DriverIx == <<1, 2, 0, 1>>

\* &[0x12, 0x11, 0x0f, 0x0f, 0x0a]
DriverSeed == <<18, 17, 15, 15, 10>>

\* the largest of the small numbers of copies the driver is run with
MaxCopies == 120

\* the numbers of copies the driver is run with: the small ones, its own ten
\* among them, and the two largest that load_ix lets into the code segment
DriverCopies == (1..MaxCopies) \cup {DRIVER_COPIES, CODE_SEG_SIZE \div 4 - 1, CODE_SEG_SIZE \div 4}

\* one turn of the loading loop, under the write guard of the memory: load_ix
\* at loaded_idx, on the first turn write_data_seg_slice, loaded_idx += the
\* size loaded.  s is the memory, loaded_idx and the result so far
LoadOnce(s) ==
    LET l == load_ix(s.memory, s.loaded_idx, DriverIx)
        d == IF IsOk(l) /\ s.loaded_idx = 0
             THEN write_data_seg_slice(l.val, DriverSeed, 0) ELSE l
    IN  IF ~IsOk(d) THEN [s EXCEPT !.res = d]
        ELSE [res |-> NoRet, memory |-> d.val,
              loaded_idx |-> (s.loaded_idx + Len(DriverIx)) % U16]

\* n turns of the loading loop: the first half of them, then, unless one
\* failed, the rest
RECURSIVE LoadN(_, _)
LoadN(s, n) ==
    IF n = 0 THEN s
    ELSE IF n = 1 THEN LoadOnce(s)
    ELSE LET half == LoadN(s, n \div 2)
         IN  IF half.res # NoRet THEN half ELSE LoadN(half, n - (n \div 2))

\* for i in 0..k: the whole loop, for one of the numbers of copies
DriverLoad ==
    /\ loc[Caller] = "load"
    /\ prog.ixs = <<>>
    /\ \E k \in DriverCopies :
          LET s == LoadN([res |-> NoRet, memory |-> memory, loaded_idx |-> loaded_idx], k)
          IN  IF s.res # NoRet
              THEN /\ Leave(Caller, s.res, s.res = Panic, FALSE)
                   /\ UNCHANGED <<memory, loaded_idx, prog>>
              ELSE /\ memory' = s.memory
                   /\ loaded_idx' = s.loaded_idx
                   /\ prog' = [prog EXCEPT !.ixs = [i \in 1..k |-> DriverIx],
                                           !.starts = {Len(DriverIx) * (i - 1) : i \in 1..k},
                                           !.data = s.memory.data_seg]
                   /\ UNCHANGED <<loc, ret, mem_lock, reg_lock, tmp>>
    /\ UNCHANGED <<registers, inx, iter, ix_pointer, ixs_count, threads, joined, snap,
                   executed, mem_call, race>>

\* vm.exec_seq(), once the loop is over, run to its end: nothing runs beside
\* it, and the loop makes at most one turn for each instruction loaded and one
\* for the byte after them
DriverRun ==
    /\ loc[Caller] = "load"
    /\ prog.ixs # <<>>
    /\ LET s == SeqRunN([res |-> NoRet, registers |-> registers, memory |-> memory],
                        Len(prog.ixs) + 1)
       IN  /\ registers' = s.registers
           /\ memory' = s.memory
           /\ ret' = [ret EXCEPT ![Caller] = s.res]
           /\ Goto(Caller, "done")
    /\ UNCHANGED <<mem_lock, reg_lock, inx, tmp, iter, snap, executed, race>>
    /\ UNCH_sched

InitDriver == Boot(0, <<>>, ZeroRegs, EmptySeg, "load")

NextDriver == DriverLoad \/ DriverRun

SpecDriver == InitDriver /\ [][NextDriver]_vars

NextMem == MemRead \/ MemWrite \/ MemReadUnified

SpecMem == InitMem /\ [][NextMem]_vars

----------------------------------------------------------------------------
(* What the claims speak of *)

\* thread t has left exec_ix by an error or a panic
Died(t) == loc[t] = "done" /\ snap[t].open

\* thread 0 is back at the top of the sequential loop: exec_ix(inx[0]) returned Ok
Completed == loc[Caller] = "seq_reg" /\ inx[Caller] # NoIx

\* a well-formed instruction: MOV [reg_id, imm8], or LDM, STM, ADD
\* [addr_hi, addr_lo, reg_id], the register of the identifier table (0..10),
\* the address one of the data segment
WellFormed(ix) ==
    /\ ix[2] = Len(ix) - 2
    /\ \/ ix[1] = MOV /\ Len(ix) = 4 /\ ix[3] \in 0..10
       \/ /\ ix[1] \in {LDM, STM, ADD}
          /\ Len(ix) = 5
          /\ ix[5] \in 0..10
          /\ get_addr_from_two_bytes(ix[3], ix[4]) < DATA_SEG_SIZE

\* the address after the program's last byte, where the NOP is
NopAddr == prog.base + Len(Flatten(prog.ixs))

\* the addresses the program's instructions start at, in order
StartAddrs == [i \in 1..Len(prog.ixs) |-> prog.base + Len(Flatten(SubSeq(prog.ixs, 1, i - 1)))]

IsPrefix(a, b) == Len(a) <= Len(b) /\ a = SubSeq(b, 1, Len(a))

\* C1: sequential mode, started at the first of k well-formed instructions
\* followed by a NOP, executes exactly those k, once each and in order, and
\* returns Ok: it never blocks, it ends only by returning Ok, and what it has
\* executed is at every moment a prefix of the program.
C1_SeqRunsProgram ==
    (/\ \A i \in 1..Len(prog.ixs) : WellFormed(prog.ixs[i])
     /\ NopAddr < CODE_SEG_SIZE
     /\ prog.regs[REG_PC] = prog.base)
    => /\ loc[Caller] # "blocked"
       /\ IsPrefix(executed, StartAddrs)
       /\ loc[Caller] = "done" => ret[Caller] = Ok(0) /\ executed = StartAddrs

\* C2: an ADD whose register holds a value v and whose address holds a data
\* byte d completes, and leaves (v + d) mod 65536 in the register.
C2_AddWraps ==
    (/\ inx[Caller].ix_type = ADD
     /\ Len(inx[Caller].ix_data) >= 3
     /\ Operand(Caller, 2) \in 0..(REG_COUNT - 1)
     /\ get_addr_from_two_bytes(Operand(Caller, 0), Operand(Caller, 1)) < DATA_SEG_SIZE)
    => /\ loc[Caller] # "blocked"
       /\ ~Died(Caller)
       /\ (Completed /\ Operand(Caller, 2) # REG_PC) =>
             registers[Operand(Caller, 2)] =
                (snap[Caller].registers[Operand(Caller, 2)]
                 + SegByte(snap[Caller].memory.data_seg,
                           get_addr_from_two_bytes(Operand(Caller, 0), Operand(Caller, 1)))) % U16

\* C3: MOV [reg_id, imm8] succeeds for every register identifier 0..10, and the
\* register then reads imm8.
C3_MovSetsRegister ==
    (/\ inx[Caller].ix_type = MOV
     /\ Len(inx[Caller].ix_data) = 2
     /\ Operand(Caller, 0) \in 0..10)
    => /\ ~Died(Caller)
       /\ Completed => /\ Operand(Caller, 0) \in DOMAIN registers
                       /\ registers[Operand(Caller, 0)] = Operand(Caller, 1)

\* C4 as stated: an instruction that completes leaves PC = p + L + 2, p the PC
\* before it.
C4_PcAdvanceAsStated ==
    Completed =>
        registers[REG_PC] = snap[Caller].registers[REG_PC]
                            + inx[Caller].ix_data_size + IX_META_SIZE

\* the byte a completed MOV or LDM wrote to its destination register
Written ==
    IF inx[Caller].ix_type = MOV THEN Operand(Caller, 1)
    ELSE SegByte(snap[Caller].memory.data_seg,
                 get_addr_from_two_bytes(Operand(Caller, 0), Operand(Caller, 1)))

WritesPc ==
    \/ inx[Caller].ix_type = MOV /\ Operand(Caller, 0) = REG_PC
    \/ inx[Caller].ix_type = LDM /\ Operand(Caller, 2) = REG_PC

\* C4 amended: an instruction that completes in sequential mode leaves
\* PC = p + L + 2, p the PC before it, unless it is a MOV or LDM into PC: then
\* PC is the byte it wrote plus L + 2.
C4_PcAdvance ==
    Completed =>
        registers[REG_PC] = (IF WritesPc THEN Written ELSE snap[Caller].registers[REG_PC])
                            + inx[Caller].ix_data_size + IX_META_SIZE

\* an STM with three operands has completed from PC = p, and PC is p + 5
C4_Witness ==
    /\ Completed
    /\ inx[Caller].ix_type = STM
    /\ inx[Caller].ix_data_size = 3
    /\ registers[REG_PC] = snap[Caller].registers[REG_PC] + 5

\* C5: concurrent mode returns only when every task it spawned has terminated,
\* and an error it returns is a task's own error, or "Thread panicked" for a
\* task that panicked.
C5_ReturnsAfterAllTasks ==
    loc[Caller] = "done" =>
        /\ \A i \in 1..Len(threads) : loc[threads[i]] = "done"
        /\ (threads # <<>> /\ ~IsOk(ret[Caller])) =>
              \E i \in 1..Len(threads) :
                  \/ ret[threads[i]] = ret[Caller]
                  \/ ret[threads[i]] = Panic /\ ret[Caller] = Err("ThreadPanicked")

\* the state the driver set up
InitialMemory ==
    [load_ix(MemoryNew, prog.base, Flatten(prog.ixs)).val EXCEPT !.data_seg = prog.data]

\* the NOP header that ends the program (opcode and length byte) lies in the
\* code array
NopHeaderInside == NopAddr + IX_SIZE_OFFSET < CODE_SEG_SIZE

\* C6: with N instruction headers from the initial PC to the first NOP header,
\* concurrent mode spawns floor(N/10) tasks: never more, and exactly that many
\* once the spawn loop is over; with N < 10 it spawns none and returns Ok with
\* registers and memory as they were.
C6_DispatchCount ==
    (NopHeaderInside /\ prog.regs[REG_PC] = prog.base) =>
        /\ Len(threads) <= Len(prog.ixs) \div 10
        /\ loc[Caller] \in {"join", "done"} => Len(threads) = Len(prog.ixs) \div 10
        /\ (Len(prog.ixs) < 10 /\ loc[Caller] = "done") =>
              /\ ret[Caller] = Ok(0)
              /\ registers = prog.regs
              /\ memory = InitialMemory

\* 19 instructions were scanned, one task ran them and the call returned Ok
C6_Witness ==
    /\ NopHeaderInside
    /\ Len(prog.ixs) = 19
    /\ Len(threads) = 1
    /\ loc[Caller] = "done"
    /\ ret[Caller] = Ok(0)

\* C7: a single-byte read or write at an address above the segment's capacity
\* returns OutOfBounds and changes nothing; at every address up to and
\* including the capacity it returns Ok.
C7_BoundsCheck ==
    mem_call.op \in {"read", "write"} =>
        IF mem_call.addr > Capacity(mem_call.seg)
        THEN mem_call.ret = Err("OutOfBounds") /\ memory = mem_call.pre
        ELSE IsOk(mem_call.ret)

\* the program is STM(addr, reg); LDM(addr, reg2) on one data-segment address
IsStoreLoad ==
    /\ Len(prog.ixs) = 2
    /\ WellFormed(prog.ixs[1]) /\ prog.ixs[1][1] = STM
    /\ WellFormed(prog.ixs[2]) /\ prog.ixs[2][1] = LDM
    /\ prog.ixs[1][3] = prog.ixs[2][3]
    /\ prog.ixs[1][4] = prog.ixs[2][4]
    /\ prog.regs[REG_PC] = prog.base

\* C8: after STM(addr, reg); LDM(addr, reg2), for any two register identifiers,
\* reg2 holds the low 8 bits of what reg held when STM ran: the run does not end
\* before both have executed, and when LDM has completed reg2 holds that byte.
C8_StoreThenLoad ==
    IsStoreLoad =>
        /\ loc[Caller] = "done" => Len(executed) >= 2
        /\ (Completed /\ Len(executed) = 2) =>
              /\ prog.ixs[2][5] \in DOMAIN registers
              /\ registers[prog.ixs[2][5]] = prog.regs[prog.ixs[1][5]] % U8

\* the decoded instruction names no register of the table (and its address, if
\* it has one, is a data-segment address)
NamesNoRegister ==
    \/ /\ inx[Caller].ix_type = MOV
       /\ Len(inx[Caller].ix_data) >= 2
       /\ Operand(Caller, 0) \notin 0..10
    \/ /\ inx[Caller].ix_type \in {LDM, STM, ADD}
       /\ Len(inx[Caller].ix_data) >= 3
       /\ Operand(Caller, 2) \notin 0..10
       /\ get_addr_from_two_bytes(Operand(Caller, 0), Operand(Caller, 1)) < DATA_SEG_SIZE

\* C9: an instruction whose reg_id names no register ends the sequential run
\* with the InvalidRegister error, the thread not aborted, no register and no
\* data byte changed.
C9_InvalidRegister ==
    (inx[Caller] # NoIx /\ NamesNoRegister) =>
        /\ ~Completed
        /\ loc[Caller] # "blocked"
        /\ loc[Caller] = "done" =>
              /\ ret[Caller] = Err("InvalidRegister")
              /\ registers = snap[Caller].registers
              /\ memory = snap[Caller].memory

\* C10: sequential mode always ends Halted (Ok) or Failed (an error value).
C10_SeqTerminates ==
    <>(loc[Caller] = "done" /\ ret[Caller].res \in {"Ok", "Err"})

\* C11: while execution is in progress, started with PC at a code-segment
\* address, PC holds a code-segment address: an index inside the 16 KiB array.
C11_PcValid ==
    (prog.regs[REG_PC] < CODE_SEG_SIZE /\ loc[Caller] # "done") =>
        registers[REG_PC] < CODE_SEG_SIZE

\* the instruction does not write PC: it is no MOV or LDM into register 9
NoPcWrite(ix) ==
    /\ ~(ix[1] = MOV /\ Len(ix) >= 3 /\ ix[3] = REG_PC)
    /\ ~(ix[1] = LDM /\ Len(ix) >= 5 /\ ix[5] = REG_PC)

\* every spawned task has run its ten turns and returned Ok
AllTasksOk ==
    /\ loc[Caller] = "done"
    /\ \A i \in 1..Len(threads) : loc[threads[i]] = "done" /\ ret[threads[i]] = Ok(0)

\* C12: with two tasks dispatched, two tasks can decode the same instruction
\* and both execute it (the witness), and whenever that has happened in a run
\* whose tasks all complete, some other scanned instruction has never been
\* executed: PC was moved past it before any task decoded it.
C12_RaceSkipsInstruction ==
    (/\ Len(threads) >= 2
     /\ \A i \in 1..Len(prog.ixs) : NoPcWrite(prog.ixs[i])
     /\ AllTasksOk
     /\ race.twice)
    => race.never

\* two tasks have run to the end of a program of 20 instructions, one
\* instruction was decoded by both and another by neither
C12_Witness ==
    /\ Len(prog.ixs) = 20
    /\ Len(threads) = 2
    /\ AllTasksOk
    /\ race.twice
    /\ race.never

\* C13: from the start of concurrent mode until the first task is spawned or
\* the call returns, every register (PC included) and every byte of memory is
\* as it was at entry, and no write guard has been held: neither lock is
\* poisoned, even when the scan has panicked.
C13_ScanChangesNothing ==
    threads = <<>> =>
        /\ registers = prog.regs
        /\ memory = InitialMemory
        /\ ~mem_lock.poisoned
        /\ ~reg_lock.poisoned

\* the scan has counted 20 instructions and stands at the NOP, no task is
\* spawned yet, and PC is where it was
C13_Witness ==
    /\ loc[Caller] = "spawn"
    /\ threads = <<>>
    /\ ixs_count = 20
    /\ ix_pointer = NopAddr
    /\ ix_pointer # prog.base
    /\ registers[REG_PC] = prog.base

\* the sequential loop has ended at a decode (not inside exec_ix), PC at a byte
\* of the code segment that is none of the five opcodes
EndedAtUnknownOpcode ==
    /\ loc[Caller] = "done"
    /\ ~snap[Caller].open
    /\ registers[REG_PC] < CODE_SEG_SIZE
    /\ SegByte(memory.code_seg, registers[REG_PC]) \notin 0..4

\* C14: in sequential mode, when the byte at PC is none of the opcodes 0..4 the
\* run fails with InvalidOpcode, whatever the length byte and the bytes after
\* it are, and the failing decode changes nothing: registers and memory are as
\* the last completed instruction left them (as at the start when none
\* completed).
C14_InvalidOpcode ==
    EndedAtUnknownOpcode =>
        /\ ret[Caller] = Err("InvalidOpcode")
        /\ executed = <<>> => registers = prog.regs /\ memory = InitialMemory

\* what the claim expects after k copies: A is 1, PC is 4k, the rest 0
DriverResult == [ZeroRegs EXCEPT ![REG_A] = 1, ![REG_PC] = 4 * Len(prog.ixs)]

\* C15 as stated: after k >= 1 copies of MOV A, 1 loaded from address 0 on a
\* fresh VM, sequential mode returns Ok with A = 1, PC = 4k and every other
\* register 0.
C15_DriverRunAsStated ==
    loc[Caller] = "done" =>
        ret[Caller] = Ok(0) /\ registers = DriverResult

\* C15 amended: the same for every k >= 1 that leaves a byte of the code
\* segment after the program (4k < 16384, k <= 4095).
C15_DriverRun ==
    (loc[Caller] = "done" /\ 4 * Len(prog.ixs) < CODE_SEG_SIZE) =>
        ret[Caller] = Ok(0) /\ registers = DriverResult

\* the driver's own run: ten copies, Ok, A = 1 and PC = 40
C15_Witness ==
    /\ Len(prog.ixs) = DRIVER_COPIES
    /\ loc[Caller] = "done"
    /\ ret[Caller] = Ok(0)
    /\ registers[REG_A] = 1
    /\ registers[REG_PC] = 40

\* the byte the unified address names: code, then data, then stack
UnifiedByte(m, a) ==
    IF a < CODE_SEG_SIZE
    THEN SegByte(m.code_seg, a)
    ELSE IF a - CODE_SEG_SIZE < DATA_SEG_SIZE
         THEN SegByte(m.data_seg, a - CODE_SEG_SIZE)
         ELSE SegByte(m.stack_seg, a - CODE_SEG_SIZE - DATA_SEG_SIZE)

\* C16: read_mem succeeds at every 16-bit unified address and returns the code
\* byte at addr below the code capacity, the data byte at addr minus the code
\* capacity in the next data-capacity bytes, and the stack byte at addr minus
\* both capacities above that; the three ranges cover the address space.
C16_ReadMem ==
    /\ CODE_SEG_SIZE + DATA_SEG_SIZE + STACK_SEG_SIZE = U16
    /\ mem_call.op = "read_mem" =>
           /\ mem_call.ret = Ok(UnifiedByte(memory, mem_call.addr))
           /\ memory = mem_call.pre
    /\ \A a \in UnifiedProbes : read_mem(memory, a) = Ok(UnifiedByte(memory, a))

\* a byte written to the last stack address is read back at the last unified
\* address, with bytes in the other two segments as well
C16_Witness ==
    /\ mem_call.op = "read_mem"
    /\ mem_call.addr = U16 - 1
    /\ mem_call.ret = Ok(255)
    /\ SegByte(memory.data_seg, 0) = 255
    /\ SegByte(memory.code_seg, CODE_SEG_SIZE - 1) = 255
    /\ SegByte(memory.stack_seg, 0) = 0

\* the sequential loop from the start state, stopped after ten turns
SeqTenTurns ==
    SeqRunN([res |-> NoRet, registers |-> prog.regs, memory |-> InitialMemory],
            TASK_ITERS)

\* C17: when exactly one task is dispatched (10 <= N < 20) and the call has
\* returned, registers and memory are those the sequential loop leaves when
\* it is stopped after its first ten turns from the same start state: a task
\* turn is a turn of the sequential loop, the test for the terminating NOP
\* included.
C17_TaskAsSequential ==
    (/\ NopHeaderInside
     /\ prog.regs[REG_PC] = prog.base
     /\ Len(prog.ixs) \in TASK_ITERS..(2 * TASK_ITERS - 1)
     /\ loc[Caller] = "done")
    => /\ registers = SeqTenTurns.registers
       /\ memory = SeqTenTurns.memory

\* C18: no spawned task is ever left waiting for a lock that will never be
\* granted, so every task ends its ten turns or fails and the call returns;
\* the wait that never ends is the one for the Register File write lock by
\* the task that holds its read lock.
C18_NoTaskBlockedForever ==
    \A i \in 1..Len(threads) :
        ~(loc[threads[i]] = "blocked" /\ threads[i] \in reg_lock.readers)

\* task t reads PC and decodes there in this step
DecodesAtPc(t) == loc[t] = "task_reg" /\ loc'[t] # "task_reg" /\ ~reg_lock.poisoned

NoPcWrites == \A i \in 1..Len(prog.ixs) : NoPcWrite(prog.ixs[i])

\* every instruction of the program has the same operand length
SameLength == \A i, j \in 1..Len(prog.ixs) : prog.ixs[i][2] = prog.ixs[j][2]

\* C19 as stated: in a program that does not write PC, whatever its operand
\* lengths, every decode of a task is at a start address the scan visited,
\* before the terminating NOP.
C19_DecodeAtStartAsStated ==
    [][\A t \in Tasks : (DecodesAtPc(t) /\ NoPcWrites) => IsStart(registers[REG_PC])]_vars

\* C19: in a program that does not write PC and whose instructions all have
\* the same operand length, every decode of a task is at a start address the
\* scan visited, before the terminating NOP, in any interleaving.
C19_DecodeAtStart ==
    [][\A t \in Tasks : (DecodesAtPc(t) /\ NoPcWrites /\ SameLength)
                            => IsStart(registers[REG_PC])]_vars

\* two tasks have raced on a same-length program: PC has been moved twice for
\* one instruction, past one that no task had decoded, and a task is about to
\* decode at the PC that left
C19_Witness ==
    /\ NoPcWrites /\ SameLength
    /\ Len(threads) = 2
    /\ race.twice /\ race.never
    /\ \E t \in Tasks : loc[t] = "task_reg" /\ ~reg_lock.poisoned

\* the data addresses whose byte this step changes
DataChanged ==
    {a \in (DOMAIN memory.data_seg) \cup (DOMAIN memory'.data_seg) :
        SegByte(memory.data_seg, a) # SegByte(memory'.data_seg, a)}

\* thread t completes the write of an STM in this step
StmWrites(t) == loc[t] = "stm_w" /\ loc'[t] = "pc_w" /\ inx[t].ix_type = STM

\* C20: no step of execution changes a byte of the code segment or of the
\* stack segment, and a step that changes the data segment is the write of an
\* STM, which changes the one byte at the address in its operands and no other.
C20_MemoryFrame ==
    [][/\ memory'.code_seg = memory.code_seg
       /\ memory'.stack_seg = memory.stack_seg
       /\ DataChanged # {} =>
              \E t \in Threads :
                  /\ StmWrites(t)
                  /\ DataChanged = {get_addr_from_two_bytes(inx[t].ix_data[1],
                                                            inx[t].ix_data[2])}]_vars

\* an STM has written its byte: the data segment is no longer the one the run
\* began with, the code and stack segments are
C20_Witness ==
    /\ \E t \in Threads : loc[t] = "pc_w" /\ inx[t].ix_type = STM
    /\ memory.data_seg # prog.data
    /\ memory.code_seg = InitialMemory.code_seg
    /\ memory.stack_seg = EmptySeg

====
